---- MODULE Spec2Model ----
(***************************************************************************)
(* A model of the agentic RAG workflow of the e-commerce product           *)
(* assistant (prod_assistant/workflow/agentic_rag_workflow_archive.py):    *)
(* the graph Assistant -> Retriever -> (grade) -> Generator | Rewriter,    *)
(* its message log kept per thread_id by the checkpointer, and the string  *)
(* tests that drive its edges.                                             *)
(*                                                                         *)
(* A text is a sequence of one-character strings, so that lower(), strip() *)
(* and the substring tests of the code are computed character by           *)
(* character.                                                              *)
(***************************************************************************)
EXTENDS Integers, Sequences, FiniteSets, TLC

\* ------------------------------------------------------------------ bounds

\* The most documents one retrieval returns, where the formatter is checked.
MaxDocs == 2
\* The longest message log a thread may hold (the code has no such limit).
MaxTurns == 7
\* The number of run() calls made in one behaviour.
MaxRuns == 2

\* The most get_top_reviews calls made in one behaviour.
MaxScrapes == 3
\* The most review blocks a product page holds.
MaxBlocks == 2

\* ------------------------------------------------------------ text helpers

UpperLetters ==
  <<"A", "B", "C", "D", "E", "F", "G", "H", "I", "J", "K", "L", "M",
    "N", "O", "P", "Q", "R", "S", "T", "U", "V", "W", "X", "Y", "Z">>

LowerLetters ==
  <<"a", "b", "c", "d", "e", "f", "g", "h", "i", "j", "k", "l", "m",
    "n", "o", "p", "q", "r", "s", "t", "u", "v", "w", "x", "y", "z">>

LowerChar(c) ==
  IF \E i \in 1..26 : UpperLetters[i] = c
  THEN LowerLetters[CHOOSE i \in 1..26 : UpperLetters[i] = c]
  ELSE c

\* str.lower()
Lower(s) == [i \in 1..Len(s) |-> LowerChar(s[i])]

\* Python's `sub in s` on strings
Contains(s, sub) ==
  \E i \in 0..(Len(s) - Len(sub)) : \A j \in 1..Len(sub) : s[i + j] = sub[j]

IsSpace(c) == c \in {" ", "\n", "\t", "\r"}

RECURSIVE LStrip(_)
LStrip(s) == IF Len(s) > 0 /\ IsSpace(s[1]) THEN LStrip(Tail(s)) ELSE s

RECURSIVE RStrip(_)
RStrip(s) ==
  IF Len(s) > 0 /\ IsSpace(s[Len(s)]) THEN RStrip(SubSeq(s, 1, Len(s) - 1)) ELSE s

\* str.strip()
Strip(s) == RStrip(LStrip(s))

RECURSIVE Join(_, _)
\* sep.join(chunks)
Join(chunks, sep) ==
  IF Len(chunks) = 0 THEN <<>>
  ELSE IF Len(chunks) = 1 THEN chunks[1]
  ELSE chunks[1] \o sep \o Join(Tail(chunks), sep)

Last(s) == s[Len(s)]

IsPrefix(s, t) == Len(s) <= Len(t) /\ SubSeq(t, 1, Len(s)) = s

\* An optional value: None, or Some(x).
None == <<>>
Some(x) == <<x>>

\* -------------------------------------------------- the program's constants

KwPrice == <<"p", "r", "i", "c", "e">>
KwReview == <<"r", "e", "v", "i", "e", "w">>
KwProduct == <<"p", "r", "o", "d", "u", "c", "t">>
Keywords == {KwPrice, KwReview, KwProduct}

ToolSentinel ==
  <<"T", "O", "O", "L", ":", " ", "r", "e", "t", "r", "i", "e", "v", "e", "r">>
ToolMarker == <<"T", "O", "O", "L">>
YesToken == <<"y", "e", "s">>

NoDocsText ==
  <<"N", "o", " ", "r", "e", "l", "e", "v", "a", "n", "t", " ", "d", "o",
    "c", "u", "m", "e", "n", "t", "s", " ", "f", "o", "u", "n", "d", ".">>
NotAvailable == <<"N", "/", "A">>
TitleLabel == <<"T", "i", "t", "l", "e", ":", " ">>
PriceLabel == <<"\n", "P", "r", "i", "c", "e", ":", " ">>
RatingLabel == <<"\n", "R", "a", "t", "i", "n", "g", ":", " ">>
ReviewsLabel == <<"\n", "R", "e", "v", "i", "e", "w", "s", ":", "\n">>
BlockSeparator == <<"\n", "\n", "-", "-", "-", "\n", "\n">>

\* ------------------------------------------------- the inputs of the model

\* Questions passed to run().
QHello == <<"H", "e", "l", "l", "o">>
QPriceUpper == <<"P", "R", "I", "C", "E", "?">>
QReviewMixed == <<"a", " ", "R", "e", "v", "i", "e", "w">>
Questions == {QHello, QPriceUpper, QReviewMixed}
KeywordQuestions == {QPriceUpper, QReviewMixed}

\* Texts the language model returns as an answer.
AnsHi == <<"H", "i", "!">>
AnsTool == <<"U", "s", "e", " ", "a", " ", "T", "O", "O", "L">>
AnsFinal == <<"I", "t", " ", "i", "s", " ", "9">>
DirectAnswers == {AnsHi, AnsTool}
FinalAnswers == {AnsFinal}

\* Texts the language model returns to the grading prompt.
ScoreYes == <<"Y", "e", "s", ".">>
ScoreNo == <<"n", "o">>
ScoreEmpty == <<>>
Scores == {ScoreYes, ScoreNo, ScoreEmpty}
NegativeScores == {ScoreNo, ScoreEmpty}

\* Texts the language model returns to the rewrite prompt.
RwPrice == <<"P", "r", "i", "c", "e", " ", "o", "f", " ", "x">>
RwProduct == <<"p", "r", "o", "d", "u", "c", "t", " ", "x">>
RwPlain == <<"t", "e", "l", "l", " ", "m", "o", "r", "e">>
Rewrites == {RwPrice, RwPlain}
KeywordRewrites == {RwPrice, RwProduct}

\* Documents the retriever returns.
TxtPhone == <<"P", "h", "o", "n", "e">>
Txt9 == <<"9">>
Txt45 == <<"4", ".", "5">>
TxtGood == <<" ", "g", "o", "o", "d", " ", "\n">>
TxtBad == <<"b", "a", "d">>

DocFull ==
  [metadata |-> Some([product_title |-> TxtPhone, price |-> Txt9, rating |-> Txt45]),
   page_content |-> TxtGood]
DocNoPrice ==
  [metadata |-> Some([product_title |-> TxtPhone, rating |-> Txt45]),
   page_content |-> TxtBad]
DocNoMeta == [metadata |-> None, page_content |-> TxtBad]

DocLists == {<<>>, <<DocNoPrice, DocFull>>, <<DocNoMeta>>}

\* Every list of up to MaxDocs documents, with metadata whole, partial, empty
\* and absent.
DocOnlyPrice == [metadata |-> Some([price |-> Txt9]), page_content |-> TxtGood]
DocEmptyMeta == [metadata |-> Some(<<>>), page_content |-> <<>>]
DocItems == {DocFull, DocNoPrice, DocNoMeta, DocOnlyPrice, DocEmptyMeta}
AllDocLists == UNION {[1..n -> DocItems] : n \in 0..MaxDocs}

Threads == {"default_thread", "t2"}

\* ------------------------------------------------------------------- state

VARIABLES
  messages,   \* thread_id -> the message log the checkpointer holds for it
  pc,         \* thread_id -> the node the run on it executes next
  query,      \* thread_id -> the question of the run in progress
  lastNode,   \* thread_id -> the node the run executed last
  call,       \* thread_id -> the last language-model call of the run
  verdict,    \* thread_id -> what _grade_documents returned last
  retrQuery,  \* thread_id -> the query last passed to retriever.invoke
  retrDocs,   \* thread_id -> the documents retriever.invoke returned last
  nLLM,       \* thread_id -> language-model calls made by the run
  nRetr,      \* thread_id -> retriever calls made by the run
  returned,   \* thread_id -> what run() returned
  vstore,     \* retriever_obj.vstore
  nConnect,   \* AstraDBVectorStore objects constructed
  conn,       \* which of them retriever_obj.vstore holds (0: none)
  retriever,  \* thread_id -> the store the retriever load_retriever returned
              \* to the run is built on (0: none returned)
  runs,       \* run() calls made
  driver,      \* the browser driver the last get_top_reviews call opened
  nOpen,       \* browsers get_top_reviews opened that were not quit
  product_url, \* the argument of the last get_top_reviews call
  top_reviews, \* what the last get_top_reviews call returned
  nScrape      \* get_top_reviews calls made

\* The state of FlipkartScraper.get_top_reviews.
scraperVars == <<driver, nOpen, product_url, top_reviews, nScrape>>

\* The state of the workflow and of its Retriever object.
workflowVars ==
  <<messages, pc, query, lastNode, call, verdict, retrQuery, retrDocs, nLLM,
    nRetr, returned, vstore, nConnect, conn, retriever, runs>>

vars == <<workflowVars, scraperVars>>

Nodes ==
  {"idle", "Assistant", "Retriever", "Connecting", "Loaded", "Grading",
   "Generator", "Rewriter", "END", "failed"}

NoCall == [node |-> "none", question |-> <<>>, context |-> <<>>, response |-> <<>>]

\* -------------------------------------------------------- pure functions

\* AgenticRAG._format_docs: meta.get(key, 'N/A')
MetaGet(meta, key) == IF key \in DOMAIN meta THEN meta[key] ELSE NotAvailable

\* AgenticRAG._format_docs: the block of one document
FormatBlock(d) ==
  LET meta == IF d.metadata = None THEN <<>> ELSE d.metadata[1]
  IN  TitleLabel \o MetaGet(meta, "product_title")
      \o PriceLabel \o MetaGet(meta, "price")
      \o RatingLabel \o MetaGet(meta, "rating")
      \o ReviewsLabel \o Strip(d.page_content)

\* AgenticRAG._format_docs
FormatDocsNoGuard(docs) ==
  Join([i \in 1..Len(docs) |-> FormatBlock(docs[i])], BlockSeparator)
FormatDocsOffByOne(docs) ==
  IF Len(docs) <= 1 THEN NoDocsText
  ELSE Join([i \in 1..Len(docs) |-> FormatBlock(docs[i])], BlockSeparator)
FormatDocsReversed(docs) ==
  IF Len(docs) = 0 THEN NoDocsText
  ELSE Join([i \in 1..Len(docs) |-> FormatBlock(docs[Len(docs) + 1 - i])],
            BlockSeparator)
FormatDocs(docs) ==
  IF Len(docs) = 0 THEN NoDocsText
  ELSE Join([i \in 1..Len(docs) |-> FormatBlock(docs[i])], BlockSeparator)

\* _ai_assistant: any(word in last_message.lower() for word in [...])
KeywordCaseSensitive(text) == \E w \in Keywords : Contains(text, w)
ContainsKeyword(text) == \E w \in Keywords : Contains(Lower(text), w)

\* The edge out of Assistant: "TOOL" in state["messages"][-1].content
AlwaysEnd(msgs) == "END"
RouteInverted(msgs) ==
  IF Contains(Last(msgs), ToolMarker) THEN "END" ELSE "Retriever"
RouteAfterAssistant(msgs) ==
  IF Contains(Last(msgs), ToolMarker) THEN "Retriever" ELSE "END"

\* _grade_documents: "generator" if "yes" in score.lower() else "rewriter"
GradeVerdictCaseSensitive(score) ==
  IF Contains(score, YesToken) THEN "generator" ELSE "rewriter"
GradeVerdictReversed(score) ==
  IF Contains(YesToken, Lower(score)) THEN "generator" ELSE "rewriter"
GradeVerdict(score) ==
  IF Contains(Lower(score), YesToken) THEN "generator" ELSE "rewriter"

\* The edge out of Retriever: {"generator": "Generator", "rewriter": "Rewriter"}
GradeEdgeSwapped(v) == IF v = "generator" THEN "Rewriter" ELSE "Generator"
GradeEdge(v) == IF v = "generator" THEN "Generator" ELSE "Rewriter"

\* The edge out of Rewriter
RewriterEdgeToRetriever == "Retriever"
RewriterEdge == "Assistant"

\* The edge out of Generator
GeneratorEdge == "END"

\* AgentState.messages: the add_messages reducer appends the new messages
\* (a HumanMessage built without an id gets a fresh one).
Overwrite(left, right) == right
ReplaceLatest(left, right) ==
  IF Len(left) = 0 THEN right ELSE SubSeq(left, 1, Len(left) - 1) \o right
AddMessages(left, right) == left \o right

\* run: result["messages"][-1].content
RunResultFirst(msgs) == msgs[1]
RunResult(msgs) == Last(msgs)

\* state["messages"][0].content, the question the Grader, the Generator and
\* the Rewriter read
FirstMessage(msgs) == msgs[1]

\* _grade_documents: docs = state["messages"][-1].content
GraderContextFirst(msgs) == msgs[1]
GraderContext(msgs) == Last(msgs)

\* _generate: docs = state["messages"][-1].content
GeneratorContextFirst(msgs) == msgs[1]
GeneratorContext(msgs) == Last(msgs)

\* _rewrite: question = state["messages"][0].content
RewriterQuestionPrevious(msgs) == msgs[Len(msgs) - 2]
RewriterQuestion(msgs) == msgs[1]

\* run: config={"configurable": {"thread_id": thread_id}}, the key under which
\* the checkpointer keeps and finds the saved messages
SharedKey(t) == "default_thread"
ThreadKey(t) == t

\* No node catches an exception of a collaborator call: the node returns no
\* update, and the exception leaves app.invoke and run.
UpdateWithSentinel == <<ToolSentinel>>
FailedNodeUpdate == <<>>
SwallowedToEnd == "END"
FailureEdge == "failed"

\* Retriever.load_retriever: `if not self.vstore:`
NeedsStore(v) == v = "None"

\* -------------------------------------------------------------------- Init

Init ==
  /\ messages = [t \in Threads |-> <<>>]
  /\ pc = [t \in Threads |-> "idle"]
  /\ query = [t \in Threads |-> <<>>]
  /\ lastNode = [t \in Threads |-> "none"]
  /\ call = [t \in Threads |-> NoCall]
  /\ verdict = [t \in Threads |-> "none"]
  /\ retrQuery = [t \in Threads |-> None]
  /\ retrDocs = [t \in Threads |-> <<>>]
  /\ nLLM = [t \in Threads |-> 0]
  /\ nRetr = [t \in Threads |-> 0]
  /\ returned = [t \in Threads |-> None]
  /\ vstore = "None"
  /\ nConnect = 0
  /\ conn = 0
  /\ retriever = [t \in Threads |-> 0]
  /\ runs = 0
  /\ driver = "none"
  /\ nOpen = 0
  /\ product_url = None
  /\ top_reviews = None
  /\ nScrape = 0

\* ----------------------------------------------------------------- actions

\* No run is in progress on thread t: none was made, or the last one returned
\* or raised.
Idle(t) == pc[t] \in {"idle", "failed"}

NoRunActive == \A u \in Threads : Idle(u)

\* run(query, thread_id): app.invoke loads the thread's saved messages, adds
\* the new question through the reducer and enters the graph at Assistant.
StartRun(t, q) ==
  /\ Idle(t)
  /\ runs < MaxRuns
  /\ Len(messages[t]) < MaxTurns
  /\ messages' = [messages EXCEPT ![t] = AddMessages(messages[ThreadKey(t)], <<q>>)]
  /\ pc' = [pc EXCEPT ![t] = "Assistant"]
  /\ query' = [query EXCEPT ![t] = q]
  /\ lastNode' = [lastNode EXCEPT ![t] = "START"]
  /\ call' = [call EXCEPT ![t] = NoCall]
  /\ verdict' = [verdict EXCEPT ![t] = "none"]
  /\ retrQuery' = [retrQuery EXCEPT ![t] = None]
  /\ retrDocs' = [retrDocs EXCEPT ![t] = <<>>]
  /\ nLLM' = [nLLM EXCEPT ![t] = 0]
  /\ nRetr' = [nRetr EXCEPT ![t] = 0]
  /\ returned' = [returned EXCEPT ![t] = None]
  /\ retriever' = [retriever EXCEPT ![t] = 0]
  /\ runs' = runs + 1
  /\ UNCHANGED <<vstore, nConnect, conn, scraperVars>>

\* The Assistant node and the conditional edge out of it; `answer` is what the
\* language model returns when the node asks it.
Assistant(t, answer) ==
  /\ pc[t] = "Assistant"
  /\ Len(messages[t]) < MaxTurns
  /\ LET last_message == Last(messages[t])
         useTool == ContainsKeyword(last_message)
         out == IF useTool THEN ToolSentinel ELSE answer
         msgs == AddMessages(messages[t], <<out>>)
     IN  /\ messages' = [messages EXCEPT ![t] = msgs]
         /\ pc' = [pc EXCEPT ![t] = RouteAfterAssistant(msgs)]
         /\ nLLM' = [nLLM EXCEPT ![t] = IF useTool THEN @ ELSE @ + 1]
         /\ call' = [call EXCEPT ![t] =
                       IF useTool THEN @
                       ELSE [node |-> "Assistant", question |-> last_message,
                             context |-> <<>>, response |-> answer]]
  /\ lastNode' = [lastNode EXCEPT ![t] = "Assistant"]
  /\ UNCHANGED <<query, verdict, retrQuery, retrDocs, nRetr, returned, vstore,
                 nConnect, conn, retriever, runs, scraperVars>>

\* Retriever.load_retriever, `if not self.vstore:` and the assignment under
\* it: the vector store is constructed when the attribute holds none.
LoadStore ==
  IF NeedsStore(vstore)
  THEN /\ vstore' = "AstraDBVectorStore"
       /\ nConnect' = nConnect + 1
       /\ conn' = nConnect + 1
  ELSE UNCHANGED <<vstore, nConnect, conn>>

\* _vector_retriever after load_retriever returned: retriever.invoke on the
\* latest message, _format_docs, and the node's update.
InvokeAndFormat(t, docs) ==
  /\ Len(messages[t]) < MaxTurns
  /\ retrQuery' = [retrQuery EXCEPT ![t] = Some(Last(messages[t]))]
  /\ retrDocs' = [retrDocs EXCEPT ![t] = docs]
  /\ nRetr' = [nRetr EXCEPT ![t] = @ + 1]
  /\ messages' = [messages EXCEPT ![t] = AddMessages(@, <<FormatDocs(docs)>>)]
  /\ pc' = [pc EXCEPT ![t] = "Grading"]
  /\ lastNode' = [lastNode EXCEPT ![t] = "Retriever"]
  /\ UNCHANGED <<query, call, verdict, nLLM, returned, runs, scraperVars>>

\* The Retriever node, with no other run stepping inside it: load_retriever
\* (which connects the vector store when there is none and returns a retriever
\* built on self.vstore: self.retriever is never assigned, so one is built on
\* every call), retriever.invoke and _format_docs.
Retrieve(t, docs) ==
  /\ pc[t] = "Retriever"
  /\ LoadStore
  /\ retriever' = [retriever EXCEPT ![t] = conn']
  /\ InvokeAndFormat(t, docs)

\* _grade_documents, the conditional edge out of Retriever; `score` is what
\* the language model returns.
Grade(t, score) ==
  /\ pc[t] = "Grading"
  /\ call' = [call EXCEPT ![t] =
                [node |-> "Grader", question |-> FirstMessage(messages[t]),
                 context |-> GraderContext(messages[t]), response |-> score]]
  /\ nLLM' = [nLLM EXCEPT ![t] = @ + 1]
  /\ verdict' = [verdict EXCEPT ![t] = GradeVerdict(score)]
  /\ pc' = [pc EXCEPT ![t] = GradeEdge(GradeVerdict(score))]
  /\ UNCHANGED <<messages, query, lastNode, retrQuery, retrDocs, nRetr, returned,
                 vstore, nConnect, conn, retriever, runs, scraperVars>>

\* The Generator node and the edge to END.
Generate(t, answer) ==
  /\ pc[t] = "Generator"
  /\ Len(messages[t]) < MaxTurns
  /\ call' = [call EXCEPT ![t] =
                [node |-> "Generator", question |-> FirstMessage(messages[t]),
                 context |-> GeneratorContext(messages[t]), response |-> answer]]
  /\ nLLM' = [nLLM EXCEPT ![t] = @ + 1]
  /\ messages' = [messages EXCEPT ![t] = AddMessages(@, <<answer>>)]
  /\ pc' = [pc EXCEPT ![t] = GeneratorEdge]
  /\ lastNode' = [lastNode EXCEPT ![t] = "Generator"]
  /\ UNCHANGED <<query, verdict, retrQuery, retrDocs, nRetr, returned, vstore,
                 nConnect, conn, retriever, runs, scraperVars>>

\* The Rewriter node and the edge back to Assistant.
Rewrite(t, new_q) ==
  /\ pc[t] = "Rewriter"
  /\ Len(messages[t]) < MaxTurns
  /\ call' = [call EXCEPT ![t] =
                [node |-> "Rewriter", question |-> RewriterQuestion(messages[t]),
                 context |-> <<>>, response |-> new_q]]
  /\ nLLM' = [nLLM EXCEPT ![t] = @ + 1]
  /\ messages' = [messages EXCEPT ![t] = AddMessages(@, <<new_q>>)]
  /\ pc' = [pc EXCEPT ![t] = RewriterEdge]
  /\ lastNode' = [lastNode EXCEPT ![t] = "Rewriter"]
  /\ UNCHANGED <<query, verdict, retrQuery, retrDocs, nRetr, returned, vstore,
                 nConnect, conn, retriever, runs, scraperVars>>

\* The graph reached END: app.invoke returns and run returns the last message.
Return(t) ==
  /\ pc[t] = "END"
  /\ returned' = [returned EXCEPT ![t] = Some(RunResult(messages[t]))]
  /\ pc' = [pc EXCEPT ![t] = "idle"]
  /\ UNCHANGED <<messages, query, lastNode, call, verdict, retrQuery, retrDocs,
                 nLLM, nRetr, vstore, nConnect, conn, retriever, runs, scraperVars>>

\* ----------------------------------------------------------- specification

\* One caller: a run() call returns before the next one is made.
Next ==
  \E t \in Threads :
    \/ \E q \in Questions : NoRunActive /\ StartRun(t, q)
    \/ \E a \in DirectAnswers : Assistant(t, a)
    \/ \E d \in DocLists : Retrieve(t, d)
    \/ \E s \in Scores : Grade(t, s)
    \/ \E a \in FinalAnswers : Generate(t, a)
    \/ \E r \in Rewrites : Rewrite(t, r)
    \/ Return(t)

Spec == Init /\ [][Next]_vars

TypeOK ==
  /\ \A t \in Threads :
       /\ pc[t] \in Nodes
       /\ Len(messages[t]) <= MaxTurns
       /\ verdict[t] \in {"none", "generator", "rewriter"}
       /\ nLLM[t] \in 0..MaxTurns
       /\ nRetr[t] \in 0..MaxTurns
  /\ vstore \in {"None", "AstraDBVectorStore"}
  /\ conn \in 0..nConnect
  /\ runs \in 0..MaxRuns

\* --------------------------------------------- the loop with no way out

\* The runs in which every question and every rewritten question names a
\* routing keyword and the grader never says yes.
NextLoop ==
  \E t \in Threads :
    \/ \E q \in KeywordQuestions : NoRunActive /\ StartRun(t, q)
    \/ \E a \in DirectAnswers : Assistant(t, a)
    \/ \E d \in DocLists : Retrieve(t, d)
    \/ \E s \in NegativeScores : Grade(t, s)
    \/ \E r \in KeywordRewrites : Rewrite(t, r)

SpecLoop == Init /\ [][NextLoop]_vars

\* One more node step of the run on thread t, in such a run.
LoopStep(t) ==
  \/ \E a \in DirectAnswers : Assistant(t, a)
  \/ \E d \in DocLists : Retrieve(t, d)
  \/ \E s \in NegativeScores : Grade(t, s)
  \/ \E r \in KeywordRewrites : Rewrite(t, r)

\* ----------------------------------------------- collaborator calls failing

\* A collaborator call of the node the run on thread t is in raises: the run
\* ends with the exception, the node's update is FailedNodeUpdate, and `msgs`
\* is the log the checkpointer is left with.
Abort(t, msgs, llmCalls, retrCalls) ==
  /\ messages' = [messages EXCEPT ![t] = AddMessages(msgs, FailedNodeUpdate)]
  /\ pc' = [pc EXCEPT ![t] = FailureEdge]
  /\ nLLM' = [nLLM EXCEPT ![t] = @ + llmCalls]
  /\ nRetr' = [nRetr EXCEPT ![t] = @ + retrCalls]
  /\ UNCHANGED <<query, lastNode, call, verdict, retrQuery, retrDocs, returned, runs, scraperVars>>

\* chain.invoke raises in _ai_assistant (the node calls the model only when
\* the latest message names no keyword).
AssistantFail(t) ==
  /\ pc[t] = "Assistant"
  /\ ~ContainsKeyword(Last(messages[t]))
  /\ Abort(t, messages[t], 1, 0)
  /\ UNCHANGED <<vstore, nConnect, conn, retriever>>

\* retriever.invoke raises in _vector_retriever, after load_retriever.
RetrieveFail(t) ==
  /\ pc[t] = "Retriever"
  /\ LoadStore
  /\ retriever' = [retriever EXCEPT ![t] = conn']
  /\ Abort(t, messages[t], 0, 1)

\* chain.invoke raises in _grade_documents. The function runs as the edge out
\* of Retriever, in the same graph step as the node: whether the checkpointer
\* already holds the node's context block at that point is the graph
\* library's choice, so both outcomes are taken.
GradeFail(t, contextSaved) ==
  /\ pc[t] = "Grading"
  /\ Abort(t, IF contextSaved THEN messages[t]
              ELSE SubSeq(messages[t], 1, Len(messages[t]) - 1), 1, 0)
  /\ UNCHANGED <<vstore, nConnect, conn, retriever>>

\* chain.invoke raises in _generate.
GenerateFail(t) ==
  /\ pc[t] = "Generator"
  /\ Abort(t, messages[t], 1, 0)
  /\ UNCHANGED <<vstore, nConnect, conn, retriever>>

\* llm.invoke raises in _rewrite.
RewriteFail(t) ==
  /\ pc[t] = "Rewriter"
  /\ Abort(t, messages[t], 1, 0)
  /\ UNCHANGED <<vstore, nConnect, conn, retriever>>

\* The inputs of the runs with failures.
ErrQuestions == {QHello, QPriceUpper}
ErrDocLists == {<<>>, <<DocNoMeta>>}
ErrScores == {ScoreYes, ScoreNo}
ErrRewrites == {RwPrice, RwPlain}
ErrAnswers == {AnsHi}

\* One caller, and every collaborator call may raise instead of returning.
NextErr ==
  \E t \in Threads :
    \/ \E q \in ErrQuestions : NoRunActive /\ StartRun(t, q)
    \/ \E a \in ErrAnswers : Assistant(t, a)
    \/ \E d \in ErrDocLists : Retrieve(t, d)
    \/ \E s \in ErrScores : Grade(t, s)
    \/ \E a \in FinalAnswers : Generate(t, a)
    \/ \E r \in ErrRewrites : Rewrite(t, r)
    \/ Return(t)
    \/ AssistantFail(t)
    \/ RetrieveFail(t)
    \/ \E b \in BOOLEAN : GradeFail(t, b)
    \/ GenerateFail(t)
    \/ RewriteFail(t)

SpecErr == Init /\ [][NextErr]_vars

\* ------------------------------------------------------------ concurrent runs

\* The inputs of the concurrent runs.
ConcQuestions == {QHello, QPriceUpper}
ConcDocLists == {<<>>, <<DocNoMeta>>}

\* Several callers: runs on different thread ids are in progress at once and
\* their node steps interleave (one run at a time on one thread id).
NextConc ==
  \E t \in Threads :
    \/ \E q \in ConcQuestions : StartRun(t, q)
    \/ \E a \in ErrAnswers : Assistant(t, a)
    \/ \E d \in ConcDocLists : Retrieve(t, d)
    \/ \E s \in ErrScores : Grade(t, s)
    \/ \E a \in FinalAnswers : Generate(t, a)
    \/ \E r \in ErrRewrites : Rewrite(t, r)
    \/ Return(t)

SpecConc == Init /\ [][NextConc]_vars

\* ------------------------------------ load_retriever under concurrent runs

\* load_retriever, line 62: the run reads self.vstore and takes the branch.
LoadRetrieverCheck(t) ==
  /\ pc[t] = "Retriever"
  /\ pc' = [pc EXCEPT ![t] = IF NeedsStore(vstore) THEN "Connecting" ELSE "Loaded"]
  /\ UNCHANGED <<messages, query, lastNode, call, verdict, retrQuery, retrDocs,
                 nLLM, nRetr, returned, vstore, nConnect, conn, retriever, runs, scraperVars>>

\* load_retriever, lines 63-70, in a run that found no store at line 62: it
\* constructs an AstraDBVectorStore and assigns it to self.vstore.
LoadRetrieverConnect(t) ==
  /\ pc[t] = "Connecting"
  /\ vstore' = "AstraDBVectorStore"
  /\ nConnect' = nConnect + 1
  /\ conn' = nConnect + 1
  /\ pc' = [pc EXCEPT ![t] = "Loaded"]
  /\ UNCHANGED <<messages, query, lastNode, call, verdict, retrQuery, retrDocs,
                 nLLM, nRetr, returned, retriever, runs, scraperVars>>

\* load_retriever, lines 75-79 (the retriever is built on the store
\* self.vstore holds now), and the rest of _vector_retriever.
RetrieveLoaded(t, docs) ==
  /\ pc[t] = "Loaded"
  /\ retriever' = [retriever EXCEPT ![t] = conn]
  /\ InvokeAndFormat(t, docs)
  /\ UNCHANGED <<vstore, nConnect, conn>>

\* Several callers on one AgenticRAG object, hence on one Retriever object: the
\* node steps of their runs interleave, and so do the steps inside
\* load_retriever, which holds no lock.
NextLazy ==
  \E t \in Threads :
    \/ \E q \in ConcQuestions : StartRun(t, q)
    \/ \E a \in ErrAnswers : Assistant(t, a)
    \/ LoadRetrieverCheck(t)
    \/ LoadRetrieverConnect(t)
    \/ \E d \in ConcDocLists : RetrieveLoaded(t, d)
    \/ \E s \in ErrScores : Grade(t, s)
    \/ \E a \in FinalAnswers : Generate(t, a)
    \/ \E r \in ErrRewrites : Rewrite(t, r)
    \/ Return(t)

SpecLazy == Init /\ [][NextLazy]_vars

\* ------------------------------------------------- the formatter's inputs

\* Runs that keep retrieving, each retrieval returning any list of documents.
NextFmt ==
  \E t \in Threads :
    \/ NoRunActive /\ StartRun(t, QPriceUpper)
    \/ \E a \in ErrAnswers : Assistant(t, a)
    \/ \E d \in AllDocLists : Retrieve(t, d)
    \/ Grade(t, ScoreNo)
    \/ Rewrite(t, RwPrice)

SpecFmt == Init /\ [][NextFmt]_vars

\* ------------------------------------------- the scraper's review fetch

HttpPrefix == <<"h", "t", "t", "p">>
NoReviewsText ==
  <<"N", "o", " ", "r", "e", "v", "i", "e", "w", "s", " ", "f", "o", "u", "n", "d">>
ReviewSeparator == <<" ", "|", "|", " ">>

\* Product URLs passed to get_top_reviews.
UrlHttp == <<"h", "t", "t", "p", ":", "/", "/", "f", "/", "p">>
UrlHttps == <<"h", "t", "t", "p", "s", ":", "/", "/", "f", "/", "p">>
UrlBare == <<"f", ".", "c", "o", "m", "/", "p">>
ProductUrls == {UrlHttp, UrlHttps, UrlBare, <<>>}

\* Texts of the review blocks of a page (block.get_text(..., strip=True)).
RevGood == <<"g", "o", "o", "d">>
RevBad == <<"b", "a", "d">>
RevOk == <<"o", "k">>
ReviewTexts == {RevGood, RevBad, RevOk, <<>>}
Pages == UNION {[1..n -> ReviewTexts] : n \in 0..MaxBlocks}
Counts == 1..2

\* product_url.startswith("http")
StartsWithHttp(url) == IsPrefix(HttpPrefix, url)

\* get_top_reviews, the loop over review_blocks from block i on: a text is
\* kept when it is not empty and not seen before, and the loop breaks once
\* `count` texts are kept.
RECURSIVE CollectReviews(_, _, _, _)
CollectReviews(review_blocks, i, reviews, count) ==
  IF i > Len(review_blocks) THEN reviews
  ELSE LET text == review_blocks[i]
           seen == {reviews[k] : k \in 1..Len(reviews)}
           kept == IF Len(text) > 0 /\ text \notin seen
                   THEN Append(reviews, text) ELSE reviews
       IN  IF Len(kept) >= count THEN kept
           ELSE CollectReviews(review_blocks, i + 1, kept, count)

\* get_top_reviews: " || ".join(reviews) if reviews else "No reviews found"
ReviewsResult(reviews) ==
  IF Len(reviews) > 0 THEN Join(reviews, ReviewSeparator) ELSE NoReviewsText

\* get_top_reviews with a URL that does not start with http: the driver is
\* opened (lines 43-49) and the call returns at line 52.
GetTopReviewsNoHttp(url) ==
  /\ nScrape < MaxScrapes
  /\ ~StartsWithHttp(url)
  /\ driver' = "open"
  /\ nOpen' = nOpen + 1
  /\ product_url' = Some(url)
  /\ top_reviews' = Some(NoReviewsText)
  /\ nScrape' = nScrape + 1
  /\ UNCHANGED workflowVars

\* get_top_reviews when the page loads and parses: the driver is opened, the
\* reviews are collected, the driver is quit (line 105) and the call returns.
GetTopReviews(url, count, review_blocks) ==
  /\ nScrape < MaxScrapes
  /\ StartsWithHttp(url)
  /\ driver' = "quit"
  /\ nOpen' = (nOpen + 1) - 1
  /\ product_url' = Some(url)
  /\ top_reviews' = Some(ReviewsResult(CollectReviews(review_blocks, 1, <<>>, count)))
  /\ nScrape' = nScrape + 1
  /\ UNCHANGED workflowVars

\* get_top_reviews when something in the try block raises an Exception:
\* reviews = [] (line 103), the driver is quit and the call returns.
GetTopReviewsExcept(url) ==
  /\ nScrape < MaxScrapes
  /\ StartsWithHttp(url)
  /\ driver' = "quit"
  /\ nOpen' = (nOpen + 1) - 1
  /\ product_url' = Some(url)
  /\ top_reviews' = Some(ReviewsResult(<<>>))
  /\ nScrape' = nScrape + 1
  /\ UNCHANGED workflowVars

\* Calls of get_top_reviews, one after another.
NextScrape ==
  \E url \in ProductUrls :
    \/ GetTopReviewsNoHttp(url)
    \/ \E count \in Counts : \E page \in Pages : GetTopReviews(url, count, page)
    \/ GetTopReviewsExcept(url)

SpecScrape == Init /\ [][NextScrape]_vars

\* ------------------------------------------------------------------ claims

\* What the claims say about texts, stated on the characters and not through
\* the operators that model the code.
MentionsKeyword(text) ==
  \E w \in Keywords : \E i \in 0..(Len(text) - Len(w)) :
    \A j \in 1..Len(w) : LowerChar(text[i + j]) = w[j]

SaysYes(text) ==
  \E i \in 0..(Len(text) - 3) :
    /\ text[i + 1] \in {"y", "Y"}
    /\ text[i + 2] \in {"e", "E"}
    /\ text[i + 3] \in {"s", "S"}

Started(t) == lastNode[t] # "none"

\* C1: whenever the Assistant node runs on a latest message that names a
\* routing keyword in any letter case, it appends the routing sentinel, makes
\* no language-model call, and the next node is the Retriever.
C1_KeywordRoutesToRetriever ==
  [][\A t \in Threads :
       (pc[t] = "Assistant" /\ pc'[t] # "Assistant"
          /\ MentionsKeyword(Last(messages[t])))
       => /\ messages'[t] = Append(messages[t], ToolSentinel)
          /\ nLLM'[t] = nLLM[t]
          /\ call'[t] = call[t]
          /\ pc'[t] = "Retriever"]_vars

C1_Witness ==
  \E t \in Threads :
    /\ query[t] = QPriceUpper
    /\ lastNode[t] = "Assistant"
    /\ Last(messages[t]) = ToolSentinel
    /\ nLLM[t] = 0
    /\ pc[t] = "Retriever"

\* C2: a run whose question names no routing keyword only ever is in Routing
\* or Done, and never invokes the retriever, whatever the language model
\* answers.
C2_NoKeywordNeverRetrieves ==
  \A t \in Threads :
    (Started(t) /\ ~MentionsKeyword(query[t]))
    => /\ pc[t] \in {"Assistant", "END", "idle"}
       /\ nRetr[t] = 0

\* C3: at every step of a run the first entry of the message log is the
\* question of that run, and so is the question the Grader, the Generator and
\* the Rewriter read.
C3_FirstEntryIsCurrentQuestion ==
  \A t \in Threads :
    Started(t)
    => /\ FirstMessage(messages[t]) = query[t]
       /\ call[t].node \in {"Grader", "Generator", "Rewriter"}
            => call[t].question = query[t]

\* C4: a Retriever step is followed by grading, and grading leads to the
\* Generator on the verdict "generator" (relevant), to the Rewriter on the
\* verdict "rewriter" (irrelevant), and nowhere else.
C4_GradingTransitions ==
  [][\A t \in Threads :
       /\ (pc[t] = "Retriever" /\ pc'[t] # "Retriever") => pc'[t] = "Grading"
       /\ (pc[t] = "Grading" /\ pc'[t] # "Grading")
          => \/ verdict'[t] = "generator" /\ pc'[t] = "Generator"
             \/ verdict'[t] = "rewriter" /\ pc'[t] = "Rewriter"]_vars

C4_Witness ==
  \E t \in Threads :
    /\ lastNode[t] = "Retriever"
    /\ call[t].node = "Grader"
    /\ verdict[t] = "rewriter"
    /\ pc[t] = "Rewriter"

\* C5: the verdict is relevant exactly when the grader's response holds the
\* letters y, e, s in a row, in any letter case; every other response, the
\* empty one included, is irrelevant.
C5_GraderClassification ==
  \A t \in Threads :
    call[t].node = "Grader"
    => /\ verdict[t] \in {"generator", "rewriter"}
       /\ verdict[t] = "generator" <=> SaysYes(call[t].response)

C5_Witness ==
  \E t \in Threads :
    /\ call[t].node = "Grader"
    /\ call[t].response = ScoreYes
    /\ verdict[t] = "generator"

\* C6, as stated: a Rewriter step leads to the Assistant with the latest entry
\* of the log replaced by the rewritten question (the log keeps its length).
C6_LatestEntryReplaced ==
  [][\A t \in Threads :
       (pc[t] = "Rewriter" /\ pc'[t] # "Rewriter")
       => /\ pc'[t] = "Assistant"
          /\ Len(messages'[t]) = Len(messages[t])
          /\ Last(messages'[t]) = call'[t].response]_vars

\* C6, amended: a Rewriter step leads to the Assistant with the rewritten
\* question appended to the log as its new latest entry, every earlier entry
\* (the context block included) staying in place.
C6_RewriteAppendsAndRoutes ==
  [][\A t \in Threads :
       (pc[t] = "Rewriter" /\ pc'[t] # "Rewriter")
       => /\ pc'[t] = "Assistant"
          /\ call'[t].node = "Rewriter"
          /\ messages'[t] = Append(messages[t], call'[t].response)]_vars

C6_Witness ==
  \E t \in Threads :
    /\ lastNode[t] = "Rewriter"
    /\ call[t].node = "Rewriter"
    /\ call[t].response = RwPlain
    /\ Last(messages[t]) = RwPlain
    /\ pc[t] = "Assistant"

\* C7: a Generator step leads to END with the generated answer as the last
\* entry of the log, and run returns that answer.
C7_GenerateThenDone ==
  \A t \in Threads :
    lastNode[t] = "Generator"
    => /\ pc[t] \in {"END", "idle"}
       /\ call[t].node = "Generator"
       /\ Last(messages[t]) = call[t].response
       /\ pc[t] = "idle" => returned[t] = Some(call[t].response)

C7_Witness ==
  \E t \in Threads :
    /\ lastNode[t] = "Generator"
    /\ pc[t] = "idle"
    /\ returned[t] = Some(AnsFinal)

\* C8, as stated: every run that reaches END executed the Generator last.
C8_GeneratorIsTerminalNode ==
  \A t \in Threads : pc[t] = "END" => lastNode[t] = "Generator"

\* C8, amended: a run that reaches END executed last either the Generator,
\* after a relevant verdict, or the Assistant, which answered a latest message
\* naming no keyword with a language-model call of its own, without context.
C8_TerminalNode ==
  \A t \in Threads :
    pc[t] = "END"
    => \/ /\ lastNode[t] = "Generator"
          /\ verdict[t] = "generator"
          /\ call[t].node = "Generator"
          /\ Last(messages[t]) = call[t].response
       \/ /\ lastNode[t] = "Assistant"
          /\ call[t].node = "Assistant"
          /\ call[t].context = <<>>
          /\ ~MentionsKeyword(call[t].question)
          /\ Last(messages[t]) = call[t].response

C8_Witness ==
  \E t \in Threads :
    /\ pc[t] = "END"
    /\ lastNode[t] = "Assistant"
    /\ nRetr[t] = 0
    /\ query[t] = QHello

\* C9: every step keeps the message log of every thread as a prefix of the
\* new log: turns are only added at the end.
C9_AppendOnly ==
  [][\A t \in Threads : IsPrefix(messages[t], messages'[t])]_vars

C9_Witness ==
  \E t \in Threads :
    /\ lastNode[t] = "Rewriter"
    /\ Len(messages[t]) = 4
    /\ messages[t][1] = query[t]
    /\ messages[t][2] = ToolSentinel

\* C10: when the grader never says yes and every question names a keyword,
\* the run never reaches the Generator or END and never returns, and it always
\* has a next step (up to the bound on the log).
C10_LoopNeverDone ==
  \A t \in Threads :
    /\ pc[t] \notin {"Generator", "END"}
    /\ returned[t] = None
    /\ (pc[t] = "Grading" \/ (pc[t] # "idle" /\ Len(messages[t]) < MaxTurns))
         => ENABLED LoopStep(t)

C10_Witness ==
  \E t \in Threads :
    /\ nRetr[t] = 2
    /\ verdict[t] = "rewriter"
    /\ pc[t] = "Assistant"
    /\ lastNode[t] = "Rewriter"

\* A step in which the run on thread t ends with an exception.
Fails(t) == pc[t] # "failed" /\ pc'[t] = "failed"

\* A step in which the run on thread t made a collaborator call that produced
\* nothing: no turn was appended and no response was recorded.
CallFailed(t) ==
  /\ nLLM'[t] + nRetr'[t] = nLLM[t] + nRetr[t] + 1
  /\ Len(messages'[t]) <= Len(messages[t])
  /\ call'[t] = call[t]

\* The log of thread t as it stood when the graph step the run is in began:
\* grading belongs to the step of the Retriever node, which appended the
\* context block.
StepStart(t) ==
  IF pc[t] = "Grading" THEN SubSeq(messages[t], 1, Len(messages[t]) - 1)
  ELSE messages[t]

\* C11: a step in which a collaborator call fails ends the run with the failure
\* after that one call (no retry), appends no substitute turn, and the run
\* returns no string: a failed run stays failed until the next run() call on
\* its thread.
C11_FailureIsRaised ==
  [][\A t \in Threads :
       /\ CallFailed(t) => (Fails(t) /\ returned'[t] = None)
       /\ Fails(t)
          => /\ pc[t] \in {"Assistant", "Retriever", "Grading", "Generator", "Rewriter"}
             /\ CallFailed(t)
       /\ pc[t] = "failed"
          => /\ returned[t] = None
             /\ \/ pc'[t] = "failed" /\ returned'[t] = None
                \/ pc'[t] = "Assistant" /\ runs' = runs + 1]_vars

C11_Witness ==
  \E t \in Threads :
    /\ pc[t] = "failed"
    /\ lastNode[t] = "Rewriter"
    /\ nRetr[t] = 2
    /\ returned[t] = None

\* C12: when a collaborator call fails, the log the thread is left with holds
\* every turn it held when the failing graph step began, unchanged and in
\* place, and nothing the failing step would have appended beyond the log as
\* it stood.
C12_FailureKeepsCommittedTurns ==
  [][\A t \in Threads :
       Fails(t)
       => /\ IsPrefix(StepStart(t), messages'[t])
          /\ IsPrefix(messages'[t], messages[t])
          /\ pc[t] # "Grading" => messages'[t] = messages[t]]_vars

C12_Witness ==
  \E t \in Threads :
    /\ pc[t] = "failed"
    /\ lastNode[t] = "Retriever"
    /\ nLLM[t] = 1
    /\ Len(messages[t]) = 2
    /\ messages[t][2] = ToolSentinel

\* C13: a run() call on a thread starts at the Assistant with the messages
\* saved for the thread followed by the new question (the question alone when
\* none was saved), whether the previous run on the thread returned or failed,
\* at whatever node.
C13_RunResumesSavedState ==
  [][\A t \in Threads :
       (runs' = runs + 1 /\ pc'[t] # pc[t])
       => /\ pc[t] \in {"idle", "failed"}
          /\ pc'[t] = "Assistant"
          /\ messages'[t] = Append(messages[t], query'[t])
          /\ Len(messages[t]) = 0 => messages'[t] = <<query'[t]>>]_vars

C13_Witness ==
  \E t \in Threads :
    /\ pc[t] = "Assistant"
    /\ lastNode[t] = "START"
    /\ runs = 2
    /\ messages[t] = <<QPriceUpper, ToolSentinel, QHello>>

\* C14: with runs on different thread ids interleaved, a step changes the log
\* of at most one thread, by appending one turn to it, and leaves the log, the
\* position and the result of every other thread as they were; a run starts
\* from its own thread's log and returns the last turn of its own log.
C14_RunsIsolated ==
  [][\A t \in Threads :
       /\ \/ messages'[t] = messages[t]
          \/ /\ Len(messages'[t]) = Len(messages[t]) + 1
             /\ IsPrefix(messages[t], messages'[t])
       /\ (messages'[t] # messages[t] \/ pc'[t] # pc[t])
          => \A u \in Threads \ {t} :
               /\ messages'[u] = messages[u]
               /\ pc'[u] = pc[u]
               /\ returned'[u] = returned[u]
       /\ (pc[t] = "END" /\ pc'[t] = "idle")
          => returned'[t] = Some(Last(messages[t]))]_vars

C14_Witness ==
  /\ pc["default_thread"] = "Grading"
  /\ pc["t2"] = "Rewriter"
  /\ query["default_thread"] = QPriceUpper
  /\ Len(messages["default_thread"]) = 6
  /\ Len(messages["t2"]) = 3

\* The run on thread t has retrieved and the retrieval was its last node.
JustRetrieved(t) == nRetr[t] > 0 /\ lastNode[t] = "Retriever"

\* C15, as stated: after an empty retrieval the context is the sentinel text,
\* the verdict is irrelevant and the run goes to the Rewriter, never to the
\* Generator.
C15_EmptyRetrievalNeverGenerates ==
  \A t \in Threads :
    (JustRetrieved(t) /\ Len(retrDocs[t]) = 0)
    => /\ Last(messages[t]) = NoDocsText
       /\ pc[t] \in {"Grading", "Rewriter"}
       /\ pc[t] = "Rewriter" => verdict[t] = "rewriter"

\* C15, amended: after an empty retrieval the context fed to the grader is the
\* sentinel text, and the verdict is the one the grader's response gives: the
\* run goes to the Rewriter when the response says no yes, and to the
\* Generator when it does.
C15_EmptyRetrievalFollowsGrader ==
  \A t \in Threads :
    (JustRetrieved(t) /\ Len(retrDocs[t]) = 0)
    => /\ Last(messages[t]) = NoDocsText
       /\ pc[t] \in {"Grading", "Rewriter", "Generator"}
       /\ pc[t] # "Grading"
          => /\ call[t].node = "Grader"
             /\ call[t].context = NoDocsText
             /\ pc[t] = "Generator" <=> SaysYes(call[t].response)

C15_Witness ==
  \E t \in Threads :
    /\ JustRetrieved(t)
    /\ Len(retrDocs[t]) = 0
    /\ call[t].node = "Grader"
    /\ call[t].response = ScoreEmpty
    /\ pc[t] = "Rewriter"

\* C16: a Retriever step makes one retriever call, appends the formatted
\* result as the latest turn and leads to grading; grading is applied to that
\* turn as its context and appends nothing.
C16_RetrieveThenGrade ==
  [][\A t \in Threads :
       /\ (pc[t] = "Retriever" /\ pc'[t] # "Retriever")
          => /\ pc'[t] = "Grading"
             /\ nRetr'[t] = nRetr[t] + 1
             /\ messages'[t] = Append(messages[t], FormatDocs(retrDocs'[t]))
       /\ (pc[t] = "Grading" /\ pc'[t] # "Grading")
          => /\ call'[t].node = "Grader"
             /\ call'[t].context = FormatDocs(retrDocs[t])
             /\ call'[t].context = Last(messages[t])
             /\ messages'[t] = messages[t]
             /\ nRetr'[t] = nRetr[t]]_vars

C16_Witness ==
  \E t \in Threads :
    /\ JustRetrieved(t)
    /\ retrDocs[t] = <<DocNoPrice, DocFull>>
    /\ call[t].node = "Grader"
    /\ call[t].context = Last(messages[t])
    /\ pc[t] = "Generator"

\* C17: the formatter's output for the empty list is the sentinel text, and
\* its output for a non-empty list is not: it starts with the title label of
\* the first block.
C17_EmptyInputGivesSentinel ==
  \A t \in Threads :
    pc[t] = "Grading"
    => /\ Len(retrDocs[t]) = 0 => Last(messages[t]) = NoDocsText
       /\ Len(retrDocs[t]) > 0
          => /\ Last(messages[t]) # NoDocsText
             /\ IsPrefix(TitleLabel, Last(messages[t]))

C17_Witness ==
  \E t \in Threads :
    /\ pc[t] = "Grading"
    /\ nRetr[t] = 2
    /\ Len(retrDocs[t]) = 0
    /\ Last(messages[t]) = NoDocsText

\* What C18 says a block is, stated on the document and not through the
\* operators that model the code.
FieldOf(d, key) ==
  IF Len(d.metadata) = 1 /\ key \in DOMAIN d.metadata[1]
  THEN d.metadata[1][key] ELSE NotAvailable

Trimmed(text) ==
  LET inked == {i \in 1..Len(text) : ~IsSpace(text[i])}
  IN  IF inked = {} THEN <<>>
      ELSE SubSeq(text, CHOOSE i \in inked : \A j \in inked : i <= j,
                        CHOOSE i \in inked : \A j \in inked : i >= j)

BlockOf(d) ==
  TitleLabel \o FieldOf(d, "product_title") \o PriceLabel \o FieldOf(d, "price")
    \o RatingLabel \o FieldOf(d, "rating") \o ReviewsLabel \o Trimmed(d.page_content)

RECURSIVE BlocksUpTo(_, _)
BlocksUpTo(docs, n) ==
  IF n = 1 THEN BlockOf(docs[1])
  ELSE BlocksUpTo(docs, n - 1) \o BlockSeparator \o BlockOf(docs[n])

Occurrences(text, sub) ==
  Cardinality({i \in 0..(Len(text) - Len(sub)) :
                 \A j \in 1..Len(sub) : text[i + j] = sub[j]})

\* C18: the formatter's output for n > 0 documents is the block of document 1,
\* the separator, the block of document 2, and so on in input order: n blocks
\* and n - 1 separators, each block holding title, price, rating and the
\* trimmed review text, with N/A for a metadata key that is absent.
C18_OneBlockPerItemInOrder ==
  \A t \in Threads :
    (pc[t] = "Grading" /\ Len(retrDocs[t]) > 0)
    => /\ Last(messages[t]) = BlocksUpTo(retrDocs[t], Len(retrDocs[t]))
       /\ Occurrences(Last(messages[t]), TitleLabel) = Len(retrDocs[t])
       /\ Occurrences(Last(messages[t]), BlockSeparator) = Len(retrDocs[t]) - 1

C18_Witness ==
  \E t \in Threads :
    /\ pc[t] = "Grading"
    /\ retrDocs[t] = <<DocNoMeta, DocFull>>
    /\ Occurrences(Last(messages[t]), NotAvailable) = 3
    /\ Occurrences(Last(messages[t]), BlockSeparator) = 1

\* C20: the query passed to the retriever is the question the Assistant was
\* deciding on in that pass: the turn before the one the Assistant appended.
C20_RetrievalQueryIsQuestion ==
  \A t \in Threads :
    pc[t] = "Grading"
    => retrQuery[t] = Some(messages[t][Len(messages[t]) - 2])

\* C21: over any number of load_retriever calls on the one Retriever object,
\* calls of concurrent runs included, at most one vector store is constructed,
\* and the retriever every call returns is built on that one store.
C21_OneConnectionForAll ==
  /\ nConnect <= 1
  /\ \A t \in Threads :
       nRetr[t] > 0 => (retriever[t] = 1 /\ retriever[t] = conn)

\* C22: whenever a get_top_reviews call has returned, whatever the URL and
\* whether or not the page loaded and parsed, the browser driver the call
\* opened has been quit, and no browser it opened is left running.
C22_DriverQuitOnReturn ==
  top_reviews # None => (driver = "quit" /\ nOpen = 0)

\* C23: the string run returns is the response of a language-model call made
\* in that run by the node the run executed last, which is the Assistant
\* answering directly (an answer without the marker TOOL) or the Generator: it
\* is not a turn written by the Assistant's keyword branch, by the Retriever
\* or by the Rewriter.
C23_ResultIsAnAnswer ==
  \A t \in Threads :
    returned[t] # None
    => /\ nLLM[t] >= 1
       /\ call[t].node \in {"Assistant", "Generator"}
       /\ lastNode[t] = call[t].node
       /\ returned[t] = Some(call[t].response)
       /\ returned[t] = Some(Last(messages[t]))
       /\ call[t].node = "Assistant"
          => /\ ~Contains(call[t].response, ToolMarker)
             /\ ~MentionsKeyword(call[t].question)
       /\ call[t].node = "Generator"
          => /\ verdict[t] = "generator"
             /\ call[t].context = FormatDocs(retrDocs[t])

C23_Witness ==
  \E t \in Threads :
    /\ returned[t] = Some(AnsFinal)
    /\ query[t] = QHello
    /\ messages[t][2] = AnsTool
    /\ nRetr[t] = 2

\* C24: grading appends no turn, so when the Generator is about to run the
\* latest turn is the context block the last Retriever step appended and the
\* grader judged relevant, and the context of the Generator's call is that
\* same turn, which then stands right before the answer in the log.
C24_GeneratesFromGradedContext ==
  \A t \in Threads :
    /\ pc[t] = "Generator"
       => /\ lastNode[t] = "Retriever"
          /\ call[t].node = "Grader"
          /\ verdict[t] = "generator"
          /\ call[t].context = Last(messages[t])
          /\ call[t].context = FormatDocs(retrDocs[t])
    /\ call[t].node = "Generator"
       => /\ verdict[t] = "generator"
          /\ call[t].context = messages[t][Len(messages[t]) - 1]
          /\ call[t].context = FormatDocs(retrDocs[t])
          /\ Last(messages[t]) = call[t].response

C24_Witness ==
  \E t \in Threads :
    /\ call[t].node = "Generator"
    /\ retrDocs[t] = <<DocNoPrice, DocFull>>
    /\ call[t].context = FormatDocs(<<DocNoPrice, DocFull>>)
    /\ nRetr[t] = 2
    /\ pc[t] = "END"

\* C25: the first entry of a thread's log never changes once it is there, and
\* on every pass through the Rewriter the text handed to the rewrite call is
\* that first entry: on a second or later pass of a run it is the text the
\* earlier passes rewrote, and not the previous rewrite, which stands third
\* from the end of the log (before the sentinel and the context block), at a
\* place other than the first.
C25_RewriteInputFixed ==
  [][\A t \in Threads :
       /\ Len(messages[t]) > 0 => messages'[t][1] = messages[t][1]
       /\ (pc[t] = "Rewriter" /\ pc'[t] = "Assistant")
          => /\ call'[t].node = "Rewriter"
             /\ call'[t].question = messages[t][1]
             /\ call'[t].question = call[t].question
             /\ nRetr[t] >= 2
                => /\ Len(messages[t]) - 2 > 1
                   /\ lastNode'[t] = "Rewriter"]_vars

C25_Witness ==
  \E t \in Threads :
    /\ lastNode[t] = "Rewriter"
    /\ call[t].node = "Rewriter"
    /\ nRetr[t] = 2
    /\ call[t].question = QReviewMixed
    /\ messages[t][4] = RwProduct
    /\ Last(messages[t]) = RwPrice

\* C26: when the Assistant runs after a Rewriter step on a rewritten question
\* that names no routing keyword, it answers from the question alone and the
\* run ends with that answer, with no further retrieval; and a run that has
\* retrieved reaches END only so or after a relevant verdict.
C26_PlainRewriteEndsRun ==
  \A t \in Threads :
    /\ (/\ lastNode[t] = "Assistant"
        /\ nRetr[t] >= 1
        /\ ~MentionsKeyword(messages[t][Len(messages[t]) - 1]))
       => /\ pc[t] \in {"END", "idle"}
          /\ call[t].node = "Assistant"
          /\ call[t].question = messages[t][Len(messages[t]) - 1]
          /\ call[t].context = <<>>
          /\ Last(messages[t]) = call[t].response
    /\ (pc[t] = "END" /\ nRetr[t] >= 1)
       => \/ lastNode[t] = "Generator" /\ verdict[t] = "generator"
          \/ /\ lastNode[t] = "Assistant"
             /\ call[t].node = "Assistant"
             /\ ~MentionsKeyword(call[t].question)

====
